---- MODULE Spec2Model ----
(***************************************************************************)
(* lazynetgen: synthesis of a three-tier topology (WAN router,             *)
(* distribution switches, access switches) with VLAN, subnet and routing   *)
(* table allocation.  Model of src/lazynetgen/main.py.                     *)
(*                                                                         *)
(* Python lists are 0-indexed, TLA+ sequences 1-indexed: routed_vlans[0]   *)
(* of the source is routed_vlans[1] here.  IPv4 addresses are the 32-bit   *)
(* integers the ipaddress library stores; a network is its base address    *)
(* and its prefix length.                                                  *)
(***************************************************************************)
EXTENDS Integers, Sequences, FiniteSets

VARIABLES
  vlans_counter,  \* the module-level counter (main.py:10)
  pc,             \* position inside Site.__init__ / Distribution.__init__
  args,           \* arguments of the running Site(...) call, or None
  site,           \* the Site under construction (self of Site.__init__)
  distribution,   \* the Distribution under construction
  access,         \* the Access created by the current loop iteration
  n,              \* loop variable of Site.__init__ (line 44)
  m,              \* loop variable of Distribution.__init__ (line 157)
  k,              \* position of the iteration over distribution routes (line 51)
  sites,          \* the Site objects already returned to the caller
  error,          \* the exception raised by the last call, or "none"
  vlan,           \* the VLAN returned by the last direct VLAN() call
  table,          \* a RoutingTable used directly through add/remove
  heap,           \* the Route objects created for that table
  last            \* the last call made on that table

vars == <<vlans_counter, pc, args, site, distribution, access, n, m, k,
          sites, error, vlan, table, heap, last>>

buildVars == <<pc, args, site, distribution, access, n, m, k, sites>>
tableVars == <<table, heap, last>>

-----------------------------------------------------------------------------
(* Bounds *)

MaxD == 2            \* largest --distributions tried
MaxA == 2            \* largest --accesses tried
MaxBuilds == 2       \* Site(...) calls made in one process
MaxAllocs == 65540   \* direct VLAN() calls made in one process
MaxRoutes == 3       \* entries of the directly used routing table
MaxObjects == 3      \* Route objects created for it

Counts(max) == -1 .. max
SiteNames == {"lab"}

None == [none |-> TRUE]

-----------------------------------------------------------------------------
(* Address model: ipaddress.IPv4Address / IPv4Network *)

IPv4(a, b, c, d) == a * 16777216 + b * 65536 + c * 256 + d

IPv4Network(address, prefixlen) == [address |-> address, prefixlen |-> prefixlen]

\* IPv4Network("0.0.0.0/0")
DefaultNetwork == IPv4Network(IPv4(0, 0, 0, 0), 0)

\* number of addresses of a /24, the only prefix that is ever indexed
NumAddresses24 == 256

\* network[i] raises IndexError when network + i lies beyond the broadcast address
IndexInRange(network, i) == i >= 0 /\ i < NumAddresses24

NetworkIndex(network, i) == network.address + i

-----------------------------------------------------------------------------
(* VLAN allocator: VLAN.__init__ *)

\* the counter is read but not advanced
VLAN_next_id_stuck(counter) == counter

VLAN_next_id(counter) == counter + 1

second_octet(id) == id \div 256
third_octet(id) == id % 256

\* IPv4Network(...) raises AddressValueError for an octet above 255
VLAN_valid(id) == second_octet(id) <= 255 /\ third_octet(id) <= 255

VLAN_network(id) ==
  IPv4Network(IPv4(10, second_octet(id), third_octet(id), 0), 24)

VLAN(id) == [id |-> id, network |-> VLAN_network(id)]

RoutedVLAN(v, ip_address) == [vlan |-> v, ip_address |-> ip_address]

-----------------------------------------------------------------------------
(* Route and RoutingTable *)

Route(dst_network, next_hop) == [dst_network |-> dst_network, next_hop |-> next_hop]

RoutingTable == [routes |-> <<>>]

RoutingTable_add(rt, route) == [rt EXCEPT !.routes = Append(@, route)]

-----------------------------------------------------------------------------
(* Switch, Distribution, Access *)

\* index of the switch's own address in its own subnet (line 107)
OwnIndex == 1

Switch(name, id) ==
  LET v == VLAN(id) IN
  [name |-> name,
   routed_vlans |-> <<RoutedVLAN(v, NetworkIndex(v.network, OwnIndex))>>,
   routing_table |-> RoutingTable]

\* the uplinks start at the address of the WAN device itself
WanUplinkIndex_off_by_one(i) == 1 + i

\* self.wan.routed_vlans[0].vlan.network[2+n]  (line 46)
WanUplinkIndex(i) == 2 + i

\* every access gets the same uplink address
AccessUplinkIndex_fixed(i) == 2

\* self.routed_vlans[0].vlan.network[n+2]  (line 159)
AccessUplinkIndex(i) == i + 2

Distribution(name, id, wan_vlan, wan_ip) ==
  LET s == Switch(name, id) IN
  [name |-> s.name,
   routed_vlans |-> Append(s.routed_vlans, RoutedVLAN(wan_vlan, wan_ip)),
   routing_table |-> s.routing_table,
   accesses |-> <<>>]

Access(name, id, distribution_vlan, distribution_ip) ==
  LET s == Switch(name, id) IN
  [name |-> s.name,
   routed_vlans |-> Append(s.routed_vlans, RoutedVLAN(distribution_vlan, distribution_ip)),
   routing_table |-> s.routing_table]

-----------------------------------------------------------------------------
(* Initial state *)

Init ==
  /\ vlans_counter = 0
  /\ pc = "idle"
  /\ args = None
  /\ site = None
  /\ distribution = None
  /\ access = None
  /\ n = 0
  /\ m = 0
  /\ k = 0
  /\ sites = <<>>
  /\ error = "none"
  /\ vlan = None
  /\ table = RoutingTable
  /\ heap = <<>>
  /\ last = None

\* an exception leaves Site.__init__: the object under construction is dropped
Raise(e) ==
  /\ error' = e
  /\ pc' = "idle"
  /\ args' = None
  /\ site' = None
  /\ distribution' = None
  /\ access' = None
  /\ UNCHANGED <<n, m, k, sites>>

-----------------------------------------------------------------------------
(* Site.__init__ and Distribution.__init__, statement by statement *)

\* lines 37-42: the call, and the creation of the WAN switch
SiteInit(name, num_distributions, num_access) ==
  /\ pc = "idle"
  /\ Len(sites) < MaxBuilds
  /\ vlans_counter' = VLAN_next_id(vlans_counter)
  /\ IF VLAN_valid(vlans_counter')
     THEN /\ args' = [name |-> name, num_distributions |-> num_distributions,
                      num_access |-> num_access]
          /\ site' = [name |-> name, distributions |-> <<>>,
                      wan |-> Switch(<<name, "wan", 0>>, vlans_counter')]
          /\ n' = 0
          /\ pc' = "site_loop"
          /\ error' = "none"
          /\ UNCHANGED <<distribution, access, m, k, sites>>
     ELSE Raise("AddressValueError")
  /\ UNCHANGED <<vlan, tableVars>>

\* lines 44-46: one more distribution; Distribution.__init__ lines 149-154
CreateDistribution ==
  /\ pc = "site_loop"
  /\ n < args.num_distributions
  /\ LET wan_vlan == site.wan.routed_vlans[1].vlan IN
       IF ~IndexInRange(wan_vlan.network, WanUplinkIndex(n))
       THEN /\ Raise("IndexError")
            /\ UNCHANGED vlans_counter
       ELSE /\ vlans_counter' = VLAN_next_id(vlans_counter)
            /\ IF VLAN_valid(vlans_counter')
               THEN /\ distribution' =
                         Distribution(<<site.name, "dist", n>>, vlans_counter', wan_vlan,
                                      NetworkIndex(wan_vlan.network, WanUplinkIndex(n)))
                    /\ m' = 0
                    /\ pc' = "access_loop"
                    /\ UNCHANGED <<args, site, access, n, k, sites, error>>
               ELSE Raise("AddressValueError")
  /\ UNCHANGED <<vlan, tableVars>>

\* lines 157-159: one more access; Access.__init__ lines 167-171
CreateAccess ==
  /\ pc = "access_loop"
  /\ m < args.num_access
  /\ LET own_vlan == distribution.routed_vlans[1].vlan IN
       IF ~IndexInRange(own_vlan.network, AccessUplinkIndex(m))
       THEN /\ Raise("IndexError")
            /\ UNCHANGED vlans_counter
       ELSE /\ vlans_counter' = VLAN_next_id(vlans_counter)
            /\ IF VLAN_valid(vlans_counter')
               THEN /\ access' =
                         Access(Append(distribution.name, "access") \o <<m>>,
                                vlans_counter', own_vlan,
                                NetworkIndex(own_vlan.network, AccessUplinkIndex(m)))
                    /\ pc' = "access_route"
                    /\ UNCHANGED <<args, site, distribution, n, m, k, sites, error>>
               ELSE Raise("AddressValueError")
  /\ UNCHANGED <<vlan, tableVars>>

\* self.routed_vlans[0].vlan.network[n+2]  (line 160)
AccessRouteNextHop(d, i) == NetworkIndex(d.routed_vlans[1].vlan.network, i + 2)

\* line 160
AccessRoute(d, a, i) == Route(a.routed_vlans[1].vlan.network, AccessRouteNextHop(d, i))

\* lines 160-161: the distribution learns the subnet of the access
AddAccessRoute ==
  /\ pc = "access_route"
  /\ distribution' = [distribution EXCEPT
                        !.routing_table = RoutingTable_add(@, AccessRoute(distribution, access, m))]
  /\ pc' = "access_default"
  /\ UNCHANGED <<vlans_counter, args, site, access, n, m, k, sites, error, vlan, tableVars>>

\* the default route points at the distribution's uplink address
AccessDefaultRoute_uplink(d) == Route(DefaultNetwork, d.routed_vlans[2].ip_address)

\* line 163
AccessDefaultRoute(d) == Route(DefaultNetwork, d.routed_vlans[1].ip_address)

\* lines 163-164: default route of the access towards its distribution
AddAccessDefault ==
  /\ pc = "access_default"
  /\ access' = [access EXCEPT
                  !.routing_table = RoutingTable_add(@, AccessDefaultRoute(distribution))]
  /\ pc' = "access_append"
  /\ UNCHANGED <<vlans_counter, args, site, distribution, n, m, k, sites, error, vlan, tableVars>>

\* line 165, and the step of the loop of line 157
AppendAccess ==
  /\ pc = "access_append"
  /\ distribution' = [distribution EXCEPT !.accesses = Append(@, access)]
  /\ access' = None
  /\ m' = m + 1
  /\ pc' = "access_loop"
  /\ UNCHANGED <<vlans_counter, args, site, n, k, sites, error, vlan, tableVars>>

\* the default route points at the network address of the WAN subnet
DistributionDefaultRoute_network(wan) ==
  Route(DefaultNetwork, NetworkIndex(wan.routed_vlans[1].vlan.network, 0))

\* line 48
DistributionDefaultRoute(wan) == Route(DefaultNetwork, wan.routed_vlans[1].ip_address)

\* the loop of line 157 is over, Distribution.__init__ returns; lines 48-49
AddDistributionDefault ==
  /\ pc = "access_loop"
  /\ ~(m < args.num_access)
  /\ distribution' = [distribution EXCEPT
                        !.routing_table = RoutingTable_add(@, DistributionDefaultRoute(site.wan))]
  /\ k' = 1
  /\ pc' = "propagate"
  /\ UNCHANGED <<vlans_counter, args, site, access, n, m, sites, error, vlan, tableVars>>

\* the default route is looked for as a host route
IsDefault_host(routing_entry) ==
  routing_entry.dst_network = IPv4Network(IPv4(0, 0, 0, 0), 32)

\* line 52: the routes that are not redistributed
IsDefault(routing_entry) == routing_entry.dst_network = DefaultNetwork

\* line 55
WanRoute(wan, routing_entry, i) ==
  Route(routing_entry.dst_network, NetworkIndex(wan.routed_vlans[1].vlan.network, 2 + i))

\* lines 51-55: one iteration over the distribution's routes
PropagateRoute ==
  /\ pc = "propagate"
  /\ k <= Len(distribution.routing_table.routes)
  /\ LET routing_entry == distribution.routing_table.routes[k] IN
       IF IsDefault(routing_entry)
       THEN UNCHANGED site
       ELSE site' = [site EXCEPT !.wan.routing_table =
                       RoutingTable_add(@, WanRoute(site.wan, routing_entry, n))]
  /\ k' = k + 1
  /\ UNCHANGED <<vlans_counter, pc, args, distribution, access, n, m, sites, error,
                 vlan, tableVars>>

\* line 56, and the step of the loop of line 44
AppendDistribution ==
  /\ pc = "propagate"
  /\ k > Len(distribution.routing_table.routes)
  /\ site' = [site EXCEPT !.distributions = Append(@, distribution)]
  /\ distribution' = None
  /\ n' = n + 1
  /\ pc' = "site_loop"
  /\ UNCHANGED <<vlans_counter, args, access, m, k, sites, error, vlan, tableVars>>

\* the loop of line 44 is over: Site.__init__ returns the site to its caller
SiteReturn ==
  /\ pc = "site_loop"
  /\ ~(n < args.num_distributions)
  /\ sites' = Append(sites, [args |-> args, site |-> site])
  /\ site' = None
  /\ args' = None
  /\ pc' = "idle"
  /\ UNCHANGED <<vlans_counter, distribution, access, n, m, k, error, vlan, tableVars>>

Next ==
  \/ \E name \in SiteNames, d \in Counts(MaxD), a \in Counts(MaxA) : SiteInit(name, d, a)
  \/ CreateDistribution
  \/ CreateAccess
  \/ AddAccessRoute
  \/ AddAccessDefault
  \/ AppendAccess
  \/ AddDistributionDefault
  \/ PropagateRoute
  \/ AppendDistribution
  \/ SiteReturn

\* builds of sites, one after the other, in one process
Spec == Init /\ [][Next]_vars

-----------------------------------------------------------------------------
(* The allocator used on its own: VLAN() called again and again *)

NewVLAN ==
  /\ vlans_counter < MaxAllocs
  /\ vlans_counter' = VLAN_next_id(vlans_counter)
  /\ IF VLAN_valid(vlans_counter')
     THEN /\ vlan' = VLAN(vlans_counter')
          /\ error' = "none"
     ELSE /\ error' = "AddressValueError"
          /\ UNCHANGED vlan
  /\ UNCHANGED <<buildVars, tableVars>>

AllocNext == NewVLAN

AllocSpec == Init /\ [][AllocNext]_vars

-----------------------------------------------------------------------------
(* A routing table used on its own.  A Route defines no __eq__, so Python     *)
(* compares routes by identity: heap holds the Route objects, and the table   *)
(* holds references to them (indices of heap).                                *)

RouteDestinations == {VLAN_network(3), VLAN_network(4)}
RouteNextHops == {IPv4(10, 0, 1, 2)}

\* `route in self.routes` (line 95), with the default object equality
RoutingTable_contains(rt, route) == \E i \in 1 .. Len(rt.routes) : rt.routes[i] = route

\* list.remove (line 96): the first entry equal to route goes
RoutingTable_remove(rt, route) ==
  LET first == CHOOSE i \in 1 .. Len(rt.routes) :
                 /\ rt.routes[i] = route
                 /\ \A j \in 1 .. i - 1 : rt.routes[j] # route
  IN [rt EXCEPT !.routes = SubSeq(@, 1, first - 1) \o SubSeq(@, first + 1, Len(@))]

\* Route(dst_network, next_hop): a new object
NewRoute(dst_network, next_hop) ==
  /\ Len(heap) < MaxObjects
  /\ heap' = Append(heap, Route(dst_network, next_hop))
  /\ UNCHANGED <<vlans_counter, buildVars, error, vlan, table, last>>

\* table.add(route), lines 91-92
TableAdd(route) ==
  /\ Len(table.routes) < MaxRoutes
  /\ table' = RoutingTable_add(table, route)
  /\ last' = [op |-> "add", route |-> route, before |-> table]
  /\ error' = "none"
  /\ UNCHANGED <<vlans_counter, buildVars, vlan, heap>>

\* table.remove(route), lines 94-96
TableRemove(route) ==
  /\ last' = [op |-> "remove", route |-> route, before |-> table]
  /\ IF RoutingTable_contains(table, route)
     THEN /\ table' = RoutingTable_remove(table, route)
          /\ error' = "none"
     ELSE /\ error' = "AssertionError"
          /\ UNCHANGED table
  /\ UNCHANGED <<vlans_counter, buildVars, vlan, heap>>

TableNext ==
  \/ \E d \in RouteDestinations, h \in RouteNextHops : NewRoute(d, h)
  \/ \E r \in 1 .. Len(heap) : TableAdd(r)
  \/ \E r \in 1 .. Len(heap) : TableRemove(r)

TableSpec == Init /\ [][TableNext]_vars

-----------------------------------------------------------------------------
(* Reading a topology *)

RECURSIVE DistributionDevices(_)
\* the distributions of a site, each followed by its accesses
DistributionDevices(ds) ==
  IF ds = <<>> THEN <<>>
  ELSE <<Head(ds)>> \o Head(ds).accesses \o DistributionDevices(Tail(ds))

\* every device of a site: what dump_to_directory walks through
SiteDevices(s) == <<s.wan>> \o DistributionDevices(s.distributions)

RECURSIVE ReturnedDevices(_)
ReturnedDevices(ss) ==
  IF ss = <<>> THEN <<>>
  ELSE SiteDevices(Head(ss).site) \o ReturnedDevices(Tail(ss))

\* every Switch object that exists in the process
AllDevices ==
  ReturnedDevices(sites)
    \o (IF site = None THEN <<>> ELSE SiteDevices(site))
    \o (IF distribution = None THEN <<>>
        ELSE <<distribution>> \o distribution.accesses)
    \o (IF access = None THEN <<>> ELSE <<access>>)

Valid(a) == a.num_distributions >= 0 /\ a.num_access >= 0

Returned == 1 .. Len(sites)

\* the returned sites built from counts of the configuration domain (both >= 0)
ValidReturned == {i \in Returned : Valid(sites[i].args)}

OwnVlan(dev) == dev.routed_vlans[1].vlan

Routes(dev) == dev.routing_table.routes

-----------------------------------------------------------------------------
(* C1: a completed build Site(name, D, A) with D >= 0 and A >= 0 has one     *)
(* WAN device, D distributions and A accesses under each, every one of them  *)
(* with a VLAN of its own, so that 1 + D + D*A VLANs were allocated; when no *)
(* call is running the counter of allocated VLANs is the number of devices   *)
(* built; and no two devices of the process have own VLANs with the same id  *)
(* or the same subnet (as many ids, and as many subnets, as devices).        *)
C1_VlanCount ==
  /\ \A i \in ValidReturned :
       LET a == sites[i].args
           s == sites[i].site
           devs == SiteDevices(s)
       IN /\ Len(s.distributions) = a.num_distributions
          /\ \A d \in 1 .. Len(s.distributions) :
               Len(s.distributions[d].accesses) = a.num_access
          /\ Len(devs) = 1 + a.num_distributions + a.num_distributions * a.num_access
          /\ Cardinality({OwnVlan(devs[x]).id : x \in 1 .. Len(devs)}) = Len(devs)
          /\ Cardinality({OwnVlan(devs[x]).network : x \in 1 .. Len(devs)}) = Len(devs)
  /\ LET devs == AllDevices
         X == 1 .. Len(devs)
     IN /\ pc = "idle" => vlans_counter = Len(devs)
        /\ Cardinality({OwnVlan(devs[x]).id : x \in X}) = Len(devs)
        /\ Cardinality({OwnVlan(devs[x]).network : x \in X}) = Len(devs)

C1_Witness ==
  \E i \in ValidReturned :
    /\ sites[i].args.num_distributions = 2
    /\ sites[i].args.num_access = 2
    /\ Len(SiteDevices(sites[i].site)) = 7

-----------------------------------------------------------------------------
-----------------------------------------------------------------------------
(* C3: after Site(name, D, A) has returned (D, A >= 0), the routing table of *)
(* every distribution has exactly A + 1 routes: for each of its accesses one *)
(* route to the subnet of the access via the uplink address of the access,   *)
(* and exactly one default route, via the own address of the WAN device.     *)
C3_DistributionRoutes ==
  \A i \in ValidReturned :
    LET a == sites[i].args
        s == sites[i].site
    IN \A d \in 1 .. Len(s.distributions) :
         LET dist == s.distributions[d]
             rs == Routes(dist)
             defaults == {p \in 1 .. Len(rs) :
                            rs[p].dst_network = [address |-> 0, prefixlen |-> 0]}
         IN /\ Len(rs) = a.num_access + 1
            /\ Cardinality(defaults) = 1
            /\ \A p \in defaults : rs[p].next_hop = s.wan.routed_vlans[1].ip_address
            /\ \A x \in 1 .. Len(dist.accesses) :
                 LET acc == dist.accesses[x]
                     hits == {p \in 1 .. Len(rs) : rs[p].dst_network = OwnVlan(acc).network}
                 IN /\ Cardinality(hits) = 1
                    /\ \A p \in hits : rs[p].next_hop = acc.routed_vlans[2].ip_address

C3_Witness ==
  \E i \in ValidReturned :
    /\ sites[i].args.num_access = 2
    /\ Len(sites[i].site.distributions) = 2
    /\ \A d \in 1 .. 2 : Len(Routes(sites[i].site.distributions[d])) = 3

-----------------------------------------------------------------------------
(* C4: after Site(name, D, A) has returned, the routing table of every       *)
(* access has exactly one route, a default route whose next hop is the own   *)
(* address of the distribution that owns the access: the first usable        *)
(* address of that distribution's subnet.                                    *)
C4_AccessRoutes ==
  \A i \in Returned :
    LET s == sites[i].site IN
    \A d \in 1 .. Len(s.distributions) :
      LET dist == s.distributions[d] IN
      \A x \in 1 .. Len(dist.accesses) :
        LET rs == Routes(dist.accesses[x]) IN
        /\ Len(rs) = 1
        /\ rs[1].dst_network = [address |-> 0, prefixlen |-> 0]
        /\ rs[1].next_hop = dist.routed_vlans[1].ip_address
        /\ rs[1].next_hop = OwnVlan(dist).network.address + 1

C4_Witness ==
  \E i \in Returned :
    /\ Len(sites[i].site.distributions) = 2
    /\ Len(sites[i].site.distributions[2].accesses) = 2
    /\ Len(Routes(sites[i].site.distributions[2].accesses[2])) = 1

-----------------------------------------------------------------------------
(* C5: in every returned site, distribution n has exactly two routed-VLAN    *)
(* bindings: its own VLAN at the first usable address of that subnet, and    *)
(* the VLAN of the WAN device at wan.subnet[2+n]; access m under it has      *)
(* exactly two bindings: its own VLAN at the first usable address of that    *)
(* subnet, and the own VLAN of distribution n at distribution[n].subnet[2+m].*)
C5_Bindings ==
  \A i \in Returned :
    LET s == sites[i].site
        wan_vlan == s.wan.routed_vlans[1].vlan
    IN \A d \in 1 .. Len(s.distributions) :
         LET dist == s.distributions[d]
             own == dist.routed_vlans[1].vlan
         IN /\ Len(dist.routed_vlans) = 2
            /\ own # wan_vlan
            /\ dist.routed_vlans[1].ip_address = own.network.address + 1
            /\ dist.routed_vlans[2].vlan = wan_vlan
            /\ dist.routed_vlans[2].ip_address = wan_vlan.network.address + 2 + (d - 1)
            /\ \A x \in 1 .. Len(dist.accesses) :
                 LET acc == dist.accesses[x]
                     acc_own == acc.routed_vlans[1].vlan
                 IN /\ Len(acc.routed_vlans) = 2
                    /\ acc_own # own
                    /\ acc_own # wan_vlan
                    /\ acc.routed_vlans[1].ip_address = acc_own.network.address + 1
                    /\ acc.routed_vlans[2].vlan = own
                    /\ acc.routed_vlans[2].ip_address = own.network.address + 2 + (x - 1)

C5_Witness ==
  \E i \in Returned :
    /\ Len(sites[i].site.distributions) = 2
    /\ Len(sites[i].site.distributions[2].accesses) = 2
    /\ Len(sites[i].site.distributions[2].accesses[2].routed_vlans) = 2

-----------------------------------------------------------------------------
(* C6: two returned sites built from the same (siteName, D, A) have the same *)
(* devices, VLAN ids, subnets, bound addresses and routing tables, and the   *)
(* WAN device of every returned site has VLAN 1, subnet 10.0.1.0/24 and own  *)
(* address 10.0.1.1.                                                         *)
C6_Deterministic ==
  /\ \A i, j \in Returned : sites[i].args = sites[j].args => sites[i].site = sites[j].site
  /\ \A i \in Returned :
       sites[i].site.wan.routed_vlans[1] =
         [vlan |-> [id |-> 1, network |-> [address |-> IPv4(10, 0, 1, 0), prefixlen |-> 24]],
          ip_address |-> IPv4(10, 0, 1, 1)]

-----------------------------------------------------------------------------
(* C7: after table.remove(route), when some entry of the table had the       *)
(* destination and the next hop of route, the call has not failed and the    *)
(* table is what it was without the first such entry; when none had, the     *)
(* call has failed and the table is what it was.                             *)
C7_RemoveByValue ==
  (last # None /\ last.op = "remove") =>
    LET before == last.before.routes
        same == {i \in 1 .. Len(before) :
                   /\ heap[before[i]].dst_network = heap[last.route].dst_network
                   /\ heap[before[i]].next_hop = heap[last.route].next_hop}
    IN IF same # {}
       THEN /\ error = "none"
            /\ \E f \in same :
                 /\ \A g \in same : f <= g
                 /\ table.routes = SubSeq(before, 1, f - 1) \o SubSeq(before, f + 1, Len(before))
       ELSE /\ error # "none"
            /\ table = last.before

-----------------------------------------------------------------------------
(* C8: an allocation whose id would be above 65025 fails with                *)
(* AllocationExhausted; no returned VLAN has an id above 65025; every        *)
(* returned VLAN has the subnet 10.(id div 256).(id mod 256).0/24.           *)
C8_AllocationGuarded ==
  /\ vlans_counter > 65025 => error = "AllocationExhausted"
  /\ vlan # None =>
       /\ vlan.id <= 65025
       /\ vlan.network = [address |-> IPv4(10, vlan.id \div 256, vlan.id % 256, 0),
                          prefixlen |-> 24]

-----------------------------------------------------------------------------
(* C9: a call Site(name, D, A) with D < 0 or A < 0 fails with                *)
(* ConfigurationError and leaves nothing behind: no site and no WAN device   *)
(* under construction, no VLAN allocated, no site returned.                  *)
C9_NegativeRejected ==
  [][\A name \in SiteNames, d \in Counts(MaxD), a \in Counts(MaxA) :
       (SiteInit(name, d, a) /\ (d < 0 \/ a < 0)) =>
         /\ error' = "ConfigurationError"
         /\ site' = None
         /\ vlans_counter' = vlans_counter
         /\ sites' = sites]_vars

-----------------------------------------------------------------------------
(* C10: in every state during and after a build, every route of every        *)
(* device has a directly connected next hop: the next hop lies in the subnet *)
(* of one of the device's bindings, differs from the device's address in     *)
(* that VLAN, and is the bound address of exactly one other device in that   *)
(* VLAN; and no two devices are bound to the same address in the same VLAN.  *)
C10_NextHopConnected ==
  LET devs == AllDevices
      X == 1 .. Len(devs)
      \* <<device, VLAN id, address>> for every binding of every device
      bound == UNION {{<<x, devs[x].routed_vlans[b].vlan.id, devs[x].routed_vlans[b].ip_address>> :
                         b \in 1 .. Len(devs[x].routed_vlans)} : x \in X}
  IN /\ \A x \in X : \A r \in 1 .. Len(Routes(devs[x])) :
          \E b \in 1 .. Len(devs[x].routed_vlans) :
            LET rv == devs[x].routed_vlans[b]
                hop == Routes(devs[x])[r].next_hop
            IN /\ hop >= rv.vlan.network.address
               /\ hop <= rv.vlan.network.address + 255
               /\ hop # rv.ip_address
               /\ Cardinality({t \in bound : t[1] # x /\ t[2] = rv.vlan.id /\ t[3] = hop}) = 1
     /\ \A t, u \in bound : (t[2] = u[2] /\ t[3] = u[3]) => t[1] = u[1]

C10_Witness ==
  /\ pc = "access_default"
  /\ n = 1
  /\ m = 1
  /\ Len(Routes(site.wan)) = 2
  /\ Len(Routes(distribution)) = 2
  /\ Len(Routes(access)) = 0

====
